---- MODULE Spec2Model ----
(***************************************************************************)
(* Model of backend/main.py: an in-memory store of messages and calls with *)
(* a status workflow, a derived pending/accepted view (get_solicitudes)    *)
(* and a single current-user slot.  Every route handler is one action; the *)
(* HTTP exchange (request, response) is part of the state so that what a   *)
(* handler returned can be observed.                                       *)
(***************************************************************************)
EXTENDS Integers, Sequences, FiniteSets, TLC

\* Number of records (messages plus calls) the clients create in a run.
MaxRecords == 2

\* Values the clients put in request bodies.
ClientIds  == {"a"}
Names      == {"Ana"}
Phones     == {"555"}
Contents   == {"hi"}
Emails     == {"ana@x"}
Timestamps == {"2024-01-01T00:00:00"}
Statuses   == {"pending", "accepted", "rejected"}

VARIABLES
    memory_db,      \* [messages |-> Seq(Message), calls |-> Seq(Call)]
    current_user,   \* None or a CurrentUser object
    request,        \* the request being served by the last handler run
    response,       \* what that handler returned
    created,        \* history: per sequence, the records as they were created
    posted_user,    \* history: None or the user of the latest POST /current_user
    last_solicitudes \* history: what GET /solicitudes last returned, None once
                     \* a record has been created or changed since

vars == <<memory_db, current_user, request, response, created, posted_user,
          last_solicitudes>>

None == [cls |-> "NoneType"]

(***************************************************************************)
(* Pydantic models.  A request body is a JSON object: a function from the  *)
(* keys it carries to their values; the keys with a default may be absent. *)
(***************************************************************************)
Opt(S) == {<<>>} \cup {<<x>> : x \in S}

WithKey(b, k, o) ==
    IF o = <<>> THEN b
    ELSE [x \in DOMAIN b \cup {k} |-> IF x = k THEN o[1] ELSE b[x]]

MessageBodies ==
    { WithKey(WithKey(b, "id", i), "status", s) :
        b \in [name : Names, phone : Phones, content : Contents, timestamp : Timestamps],
        i \in Opt(ClientIds), s \in Opt(Statuses) }

CallBodies ==
    { WithKey(WithKey(b, "id", i), "status", s) :
        b \in [name : Names, phone : Phones, timestamp : Timestamps],
        i \in Opt(ClientIds), s \in Opt(Statuses) }

UserBodies ==
    { WithKey(b, "id", i) :
        b \in [name : Names, phone : Phones, email : Emails],
        i \in Opt(ClientIds) }

StatusUpdates == [status : Statuses]

Range(s) == {s[i] : i \in DOMAIN s}

\* Identifiers carried by the records of the two sequences.
RecordIds ==
    {m.id : m \in Range(memory_db.messages)} \cup {c.id : c \in Range(memory_db.calls)}

\* Identifier carried by the current user, if any.
UserIds == IF current_user = None THEN {} ELSE {current_user.id}

\* str(uuid4()): a value that differs from every identifier in existence.
\* Identifiers are only ever compared for equality, so the least value of
\* the given family that no object in `used` carries stands for it.
uuid4(family, used) ==
    LET n == CHOOSE k \in 1..(Cardinality(used) + 1) :
                 /\ (family \o ToString(k)) \notin used
                 /\ \A j \in 1..(k - 1) : (family \o ToString(j)) \in used
    IN  family \o ToString(n)

\* Variant: the status field defaults to "accepted".
DefaultStatus_accepted == "accepted"

DefaultStatus == "pending"

Field(body, k, default) == IF k \in DOMAIN body THEN body[k] ELSE default

Message(body) ==
    [cls |-> "Message",
     id |-> Field(body, "id", uuid4("uuid-", RecordIds)),
     name |-> body.name,
     phone |-> body.phone,
     content |-> body.content,
     status |-> Field(body, "status", DefaultStatus),
     timestamp |-> body.timestamp]

Call(body) ==
    [cls |-> "Call",
     id |-> Field(body, "id", uuid4("uuid-", RecordIds)),
     name |-> body.name,
     phone |-> body.phone,
     timestamp |-> body.timestamp,
     status |-> Field(body, "status", DefaultStatus)]

CurrentUser(body) ==
    [cls |-> "CurrentUser",
     id |-> Field(body, "id", uuid4("uuid-u", UserIds)),
     name |-> body.name,
     phone |-> body.phone,
     email |-> body.email]

\* BaseModel.dict() and the response_model serialisation: the fields of the
\* object as a plain key-value structure, without the object's class.
dict(obj) == [k \in DOMAIN obj \ {"cls"} |-> obj[k]]

dicts(seq) == [i \in DOMAIN seq |-> dict(seq[i])]

\* [x for x in seq if x.status == status], in the order of seq.
RECURSIVE FilterStatus(_, _)
FilterStatus(seq, status) ==
    IF seq = <<>> THEN <<>>
    ELSE IF Head(seq).status = status
         THEN <<Head(seq)>> \o FilterStatus(Tail(seq), status)
         ELSE FilterStatus(Tail(seq), status)

\* Variant: the loop keeps going after a match, so the last match wins.
LastIndex(seq, id) ==
    IF \E i \in DOMAIN seq : seq[i].id = id
    THEN CHOOSE i \in DOMAIN seq :
             /\ seq[i].id = id
             /\ \A j \in (i + 1)..Len(seq) : seq[j].id # id
    ELSE 0

\* The index the loop "for x in seq: if x.id == id" stops at; 0 when it runs out.
FirstIndex(seq, id) ==
    IF \E i \in DOMAIN seq : seq[i].id = id
    THEN CHOOSE i \in DOMAIN seq :
             /\ seq[i].id = id
             /\ \A j \in 1..(i - 1) : seq[j].id # id
    ELSE 0

Ok(body) == [status_code |-> 200, body |-> body]

HTTPException(code, detail) == [status_code |-> code, body |-> [detail |-> detail]]

\* The part of a record no handler assigns to after construction.
Immutable(rec) == [k \in DOMAIN rec \ {"cls", "status"} |-> rec[k]]

Init ==
    /\ memory_db = [messages |-> <<>>, calls |-> <<>>]
    /\ current_user = None
    /\ request = [op |-> "startup"]
    /\ response = [status_code |-> 0]
    /\ created = [messages |-> <<>>, calls |-> <<>>]
    /\ posted_user = None
    /\ last_solicitudes = None

(***************************************************************************)
(* Route handlers.  Each one sets the store, the request it served and the *)
(* response it returned.                                                   *)
(***************************************************************************)
get_messages ==
    /\ request' = [op |-> "get_messages"]
    /\ response' = Ok(dicts(memory_db.messages))
    /\ UNCHANGED <<memory_db, current_user>>

\* Variant: insert(0, message) instead of append(message).
add_message_front(body) ==
    LET message == Message(body) IN
    /\ request' = [op |-> "add_message", body |-> body]
    /\ memory_db' = [memory_db EXCEPT !.messages = <<message>> \o @]
    /\ response' = Ok(dict(message))
    /\ UNCHANGED current_user

add_message(body) ==
    LET message == Message(body) IN
    /\ request' = [op |-> "add_message", body |-> body]
    /\ memory_db' = [memory_db EXCEPT !.messages = Append(@, message)]
    /\ response' = Ok(dict(message))
    /\ UNCHANGED current_user

\* Variant: no return inside the loop, so every record with the identifier is
\* assigned; the first match is returned after the loop.
update_message_status_all(message_id, status_update) ==
    LET i == FirstIndex(memory_db.messages, message_id) IN
    /\ request' = [op |-> "update_message_status", id |-> message_id, body |-> status_update]
    /\ IF i # 0
       THEN /\ memory_db' = [memory_db EXCEPT !.messages =
                               [j \in DOMAIN @ |->
                                   IF @[j].id = message_id
                                   THEN [@[j] EXCEPT !.status = status_update.status]
                                   ELSE @[j]]]
            /\ response' = Ok(dict(memory_db'.messages[i]))
       ELSE /\ memory_db' = memory_db
            /\ response' = HTTPException(404, "Message not found")
    /\ UNCHANGED current_user

\* Variant: the loop runs over the calls as well when no message matches.
update_message_status_any(message_id, status_update) ==
    LET i == FirstIndex(memory_db.messages, message_id)
        k == FirstIndex(memory_db.calls, message_id) IN
    /\ request' = [op |-> "update_message_status", id |-> message_id, body |-> status_update]
    /\ IF i # 0
       THEN /\ memory_db' = [memory_db EXCEPT !.messages[i].status = status_update.status]
            /\ response' = Ok(dict(memory_db'.messages[i]))
       ELSE IF k # 0
       THEN /\ memory_db' = [memory_db EXCEPT !.calls[k].status = status_update.status]
            /\ response' = Ok(dict(memory_db'.calls[k]))
       ELSE /\ memory_db' = memory_db
            /\ response' = HTTPException(404, "Message not found")
    /\ UNCHANGED current_user

update_message_status(message_id, status_update) ==
    LET i == FirstIndex(memory_db.messages, message_id) IN
    /\ request' = [op |-> "update_message_status", id |-> message_id, body |-> status_update]
    /\ IF i # 0
       THEN /\ memory_db' = [memory_db EXCEPT !.messages[i].status = status_update.status]
            /\ response' = Ok(dict(memory_db'.messages[i]))
       ELSE /\ memory_db' = memory_db
            /\ response' = HTTPException(404, "Message not found")
    /\ UNCHANGED current_user

get_calls ==
    /\ request' = [op |-> "get_calls"]
    /\ response' = Ok(dicts(memory_db.calls))
    /\ UNCHANGED <<memory_db, current_user>>

add_call(body) ==
    LET call == Call(body) IN
    /\ request' = [op |-> "add_call", body |-> body]
    /\ memory_db' = [memory_db EXCEPT !.calls = Append(@, call)]
    /\ response' = Ok(dict(call))
    /\ UNCHANGED current_user

update_call_status(call_id, status_update) ==
    LET i == FirstIndex(memory_db.calls, call_id) IN
    /\ request' = [op |-> "update_call_status", id |-> call_id, body |-> status_update]
    /\ IF i # 0
       THEN /\ memory_db' = [memory_db EXCEPT !.calls[i].status = status_update.status]
            /\ response' = Ok(dict(memory_db'.calls[i]))
       ELSE /\ memory_db' = memory_db
            /\ response' = HTTPException(404, "Call not found")
    /\ UNCHANGED current_user

\* Variant: pending_calls + pending_messages.
Solicitudes_calls_first(db) ==
    dicts(FilterStatus(db.calls, "pending")) \o dicts(FilterStatus(db.messages, "pending"))

\* Variant: the second filter tests status != "pending".
RECURSIVE FilterNotStatus(_, _)
FilterNotStatus(seq, status) ==
    IF seq = <<>> THEN <<>>
    ELSE IF Head(seq).status # status
         THEN <<Head(seq)>> \o FilterNotStatus(Tail(seq), status)
         ELSE FilterNotStatus(Tail(seq), status)

ConversacionesActivas_not_pending(db) ==
    dicts(FilterNotStatus(db.messages, "pending")) \o dicts(FilterNotStatus(db.calls, "pending"))

\* The two groups get_solicitudes builds from a store.
Solicitudes(db) ==
    dicts(FilterStatus(db.messages, "pending")) \o dicts(FilterStatus(db.calls, "pending"))

ConversacionesActivas(db) ==
    dicts(FilterStatus(db.messages, "accepted")) \o dicts(FilterStatus(db.calls, "accepted"))

\* Variant: the pending calls are added in place to the stored messages list
\* (solicitudes aliases memory_db["messages"] and is extended).
get_solicitudes_in_place ==
    /\ request' = [op |-> "get_solicitudes"]
    /\ memory_db' = [memory_db EXCEPT !.messages = @ \o FilterStatus(memory_db.calls, "pending")]
    /\ response' = Ok([solicitudes |-> Solicitudes(memory_db),
                       conversaciones_activas |-> ConversacionesActivas(memory_db)])
    /\ UNCHANGED current_user

get_solicitudes ==
    /\ request' = [op |-> "get_solicitudes"]
    /\ response' = Ok([solicitudes |-> Solicitudes(memory_db),
                       conversaciones_activas |-> ConversacionesActivas(memory_db)])
    /\ UNCHANGED <<memory_db, current_user>>

\* Variant: the slot is assigned only while it is empty.
set_current_user_once(body) ==
    LET user == CurrentUser(body) IN
    /\ request' = [op |-> "set_current_user", body |-> body]
    /\ current_user' = IF current_user = None THEN user ELSE current_user
    /\ response' = Ok(dict(current_user'))
    /\ UNCHANGED memory_db

set_current_user(body) ==
    LET user == CurrentUser(body) IN
    /\ request' = [op |-> "set_current_user", body |-> body]
    /\ current_user' = user
    /\ response' = Ok(dict(current_user'))
    /\ UNCHANGED memory_db

get_current_user ==
    /\ request' = [op |-> "get_current_user"]
    /\ response' = IF current_user = None
                   THEN HTTPException(404, "No current user set")
                   ELSE Ok(dict(current_user))
    /\ UNCHANGED <<memory_db, current_user>>

(***************************************************************************)
(* History of the requests served, kept beside the program's state: what   *)
(* the clients asked to create, the user they last posted, and the last    *)
(* answer of GET /solicitudes while no record has changed since.           *)
(***************************************************************************)
History ==
    /\ created' =
         IF request'.op = "add_message"
         THEN [created EXCEPT !.messages = Append(@, Immutable(Message(request'.body)))]
         ELSE IF request'.op = "add_call"
         THEN [created EXCEPT !.calls = Append(@, Immutable(Call(request'.body)))]
         ELSE created
    /\ posted_user' =
         IF request'.op = "set_current_user"
         THEN CurrentUser(request'.body)
         ELSE posted_user
    /\ last_solicitudes' =
         IF memory_db' # memory_db THEN None
         ELSE IF request'.op = "get_solicitudes" THEN response'.body
         ELSE last_solicitudes

\* Identifiers a client puts in the path of a PUT: its own, and any the
\* server has handed out for a record.
PathIds == ClientIds \cup RecordIds

NumRecords == Len(memory_db.messages) + Len(memory_db.calls)

Next ==
    \/ get_messages /\ History
    \/ \E body \in MessageBodies : NumRecords < MaxRecords /\ add_message(body) /\ History
    \/ \E id \in PathIds, su \in StatusUpdates : update_message_status(id, su) /\ History
    \/ get_calls /\ History
    \/ \E body \in CallBodies : NumRecords < MaxRecords /\ add_call(body) /\ History
    \/ \E id \in PathIds, su \in StatusUpdates : update_call_status(id, su) /\ History
    \/ get_solicitudes /\ History
    \/ \E body \in UserBodies : set_current_user(body) /\ History
    \/ get_current_user /\ History

Spec == Init /\ [][Next]_vars

(***************************************************************************)
(* Properties.                                                             *)
(***************************************************************************)
Ids(seq) == {seq[i].id : i \in DOMAIN seq}

Records == Range(memory_db.messages) \cup Range(memory_db.calls)

Projection(seq) == [i \in DOMAIN seq |-> Immutable(seq[i])]

StatusesOf(seq) == [i \in DOMAIN seq |-> seq[i].status]

\* C1: get_messages / get_calls return exactly the records that were created,
\* one per create and in creation order; the stored sequences themselves
\* always hold exactly those records in that order, whatever creates, status
\* updates, partition queries and current-user operations have run.
C1_ListReturnsCreated ==
    /\ Projection(memory_db.messages) = created.messages
    /\ Projection(memory_db.calls) = created.calls
    /\ request.op = "get_messages" =>
          /\ response.status_code = 200
          /\ Projection(response.body) = created.messages
          /\ StatusesOf(response.body) = StatusesOf(memory_db.messages)
    /\ request.op = "get_calls" =>
          /\ response.status_code = 200
          /\ Projection(response.body) = created.calls
          /\ StatusesOf(response.body) = StatusesOf(memory_db.calls)

\* C1 witness: a list of two messages with different identifiers was
\* returned after one of them had its status updated.
C1_Witness ==
    /\ request.op = "get_messages"
    /\ Len(response.body) = 2
    /\ response.body[1].id # response.body[2].id
    /\ response.body[1].status = "accepted"
    /\ response.body[2].status = "pending"

\* C2: an update-status on an identifier present in the sequence succeeds,
\* sets the status of one record carrying that identifier to the requested
\* value and changes nothing else: the record's other fields, every other
\* record of both sequences and the current-user slot are unchanged.
C2_UpdateChangesOnlyStatus ==
    [][ /\ (request'.op = "update_message_status" /\ request'.id \in Ids(memory_db.messages)) =>
            /\ response'.status_code = 200
            /\ \E i \in DOMAIN memory_db.messages :
                  /\ memory_db.messages[i].id = request'.id
                  /\ memory_db'.messages =
                        [memory_db.messages EXCEPT ![i].status = request'.body.status]
            /\ memory_db'.calls = memory_db.calls
            /\ current_user' = current_user
        /\ (request'.op = "update_call_status" /\ request'.id \in Ids(memory_db.calls)) =>
            /\ response'.status_code = 200
            /\ \E i \in DOMAIN memory_db.calls :
                  /\ memory_db.calls[i].id = request'.id
                  /\ memory_db'.calls =
                        [memory_db.calls EXCEPT ![i].status = request'.body.status]
            /\ memory_db'.messages = memory_db.messages
            /\ current_user' = current_user
      ]_vars

\* C2 witness: a message was updated to "accepted" while a second message
\* with the same identifier, a user and nothing else were in the store.
C2_Witness ==
    /\ request.op = "update_message_status"
    /\ response.status_code = 200
    /\ request.body.status = "accepted"
    /\ Len(memory_db.messages) = 2
    /\ memory_db.messages[1].id = memory_db.messages[2].id
    /\ memory_db.messages[1].status = "accepted"
    /\ memory_db.messages[2].status = "rejected"
    /\ current_user # None

\* C3: an update-status with an identifier no record of its own sequence
\* carries returns 404 and leaves both sequences and the current-user slot
\* as they were, also when the other sequence holds that identifier.
C3_UpdateNotFound ==
    [][ /\ (request'.op = "update_message_status" /\ request'.id \notin Ids(memory_db.messages)) =>
            /\ response'.status_code = 404
            /\ memory_db' = memory_db
            /\ current_user' = current_user
        /\ (request'.op = "update_call_status" /\ request'.id \notin Ids(memory_db.calls)) =>
            /\ response'.status_code = 404
            /\ memory_db' = memory_db
            /\ current_user' = current_user
      ]_vars

\* C3 witness: update_message_status returned 404 for an identifier that a
\* call carries.
C3_Witness ==
    /\ request.op = "update_message_status"
    /\ response.status_code = 404
    /\ request.id \in Ids(memory_db.calls)
    /\ memory_db.messages # <<>>

\* C4: in what get_solicitudes returns, a stored record is in solicitudes
\* iff its status is "pending", in conversaciones_activas iff its status is
\* "accepted", in neither otherwise, and no record is in both groups.
C4_PartitionByStatus ==
    request.op = "get_solicitudes" =>
        LET sol == Range(response.body.solicitudes)
            act == Range(response.body.conversaciones_activas)
        IN  /\ response.status_code = 200
            /\ \A r \in Records :
                  /\ dict(r) \in sol <=> r.status = "pending"
                  /\ dict(r) \in act <=> r.status = "accepted"
            /\ sol \cap act = {}
            /\ sol \cup act \subseteq {dict(r) : r \in Records}

\* C4 witness: get_solicitudes answered for a store holding an accepted
\* record and a record whose status is neither pending nor accepted.
C4_Witness ==
    /\ request.op = "get_solicitudes"
    /\ \E r \in Records : r.status = "accepted"
    /\ \E r \in Records : r.status = "rejected"

\* C5: each group get_solicitudes returns is the messages of that status, in
\* insertion order, followed by the calls of that status, in insertion order.
C5_GroupOrder ==
    request.op = "get_solicitudes" =>
        /\ response.body.solicitudes =
              SelectSeq(dicts(memory_db.messages), LAMBDA d : d.status = "pending")
                 \o SelectSeq(dicts(memory_db.calls), LAMBDA d : d.status = "pending")
        /\ response.body.conversaciones_activas =
              SelectSeq(dicts(memory_db.messages), LAMBDA d : d.status = "accepted")
                 \o SelectSeq(dicts(memory_db.calls), LAMBDA d : d.status = "accepted")

\* C5 witness: solicitudes came back holding a pending message followed by
\* a pending call.
C5_Witness ==
    /\ request.op = "get_solicitudes"
    /\ Len(response.body.solicitudes) = 2
    /\ "content" \in DOMAIN response.body.solicitudes[1]
    /\ "content" \notin DOMAIN response.body.solicitudes[2]

\* C6: get_current_user returns 404 iff no set_current_user has been served
\* since the start; otherwise it returns exactly the user of the most recent
\* set_current_user.
C6_CurrentUser ==
    request.op = "get_current_user" =>
        IF posted_user = None
        THEN response.status_code = 404
        ELSE response = Ok(dict(posted_user))

\* C6 witness: get_current_user returned a user that replaced an earlier one
\* (the second identifier the server generated for a user).
C6_Witness ==
    /\ request.op = "get_current_user"
    /\ response.status_code = 200
    /\ response.body.id = "uuid-u2"

\* C7: no two records of the messages sequence share an identifier and no
\* two records of the calls sequence share an identifier.
C7_UniqueIds ==
    /\ \A i, j \in DOMAIN memory_db.messages :
          memory_db.messages[i].id = memory_db.messages[j].id => i = j
    /\ \A i, j \in DOMAIN memory_db.calls :
          memory_db.calls[i].id = memory_db.calls[j].id => i = j

\* C8: get_solicitudes leaves both sequences and the current-user slot
\* unchanged, and returns what the previous get_solicitudes returned when no
\* record has been created or changed in between.
C8_SolicitudesPure ==
    [][ request'.op = "get_solicitudes" =>
            /\ memory_db' = memory_db
            /\ current_user' = current_user
            /\ last_solicitudes # None => response'.body = last_solicitudes
      ]_vars

\* C8 witness: get_solicitudes answered with both groups non-empty, equal to
\* the answer remembered for the unchanged store, with a user set.
C8_Witness ==
    /\ request.op = "get_solicitudes"
    /\ last_solicitudes = response.body
    /\ response.body.solicitudes # <<>>
    /\ response.body.conversaciones_activas # <<>>
    /\ current_user # None

C10_OnlyEarliestDuplicateUpdated ==
    [][ /\ \A j \in DOMAIN memory_db.messages :
              (\E i \in 1..(j - 1) : memory_db.messages[i].id = memory_db.messages[j].id) =>
                  memory_db'.messages[j].status = memory_db.messages[j].status
        /\ \A j \in DOMAIN memory_db.calls :
              (\E i \in 1..(j - 1) : memory_db.calls[i].id = memory_db.calls[j].id) =>
                  memory_db'.calls[j].status = memory_db.calls[j].status
        /\ (request'.op = "update_message_status" /\ response'.status_code = 200) =>
              \E i \in DOMAIN memory_db.messages :
                  /\ memory_db.messages[i].id = request'.id
                  /\ \A k \in 1..(i - 1) : memory_db.messages[k].id # request'.id
                  /\ memory_db'.messages[i].status = request'.body.status
                  /\ response'.body = dict(memory_db'.messages[i])
        /\ (request'.op = "update_call_status" /\ response'.status_code = 200) =>
              \E i \in DOMAIN memory_db.calls :
                  /\ memory_db.calls[i].id = request'.id
                  /\ \A k \in 1..(i - 1) : memory_db.calls[k].id # request'.id
                  /\ memory_db'.calls[i].status = request'.body.status
                  /\ response'.body = dict(memory_db'.calls[i])
      ]_vars

\* C10 witness: two calls carry one identifier and an update-status on it
\* has assigned the first, leaving the second on its creation status.
C10_Witness ==
    /\ request.op = "update_call_status"
    /\ response.status_code = 200
    /\ Len(memory_db.calls) = 2
    /\ memory_db.calls[1].id = memory_db.calls[2].id
    /\ memory_db.calls[1].status = request.body.status
    /\ memory_db.calls[2].status # request.body.status

====
